---- MODULE Spec2Model ----
(***************************************************************************)
(* A model of covid19model.models.base.BaseModel: construction             *)
(* (__init__, _validate_time_dependent_parameters, _validate), the         *)
(* right-hand-side function built by _create_fun, _sim_single,             *)
(* solve_discrete and the ensemble loop of sim.                            *)
(*                                                                         *)
(* Representation.  A Python dict is a sequence of records [k, v] in       *)
(* insertion order.  A numpy array is a record [shape, data] with data in  *)
(* row-major order; a Python scalar is an array of shape <<>>.  A Python    *)
(* name is a string.                                                       *)
(***************************************************************************)
EXTENDS Integers, Sequences, FiniteSets, TLC

VARIABLES
    cls,            \* the model class: state_names, parameter_names, ..., integrate's signature
    arg_parameters, \* the parameters dict the caller passes to __init__
    arg_states,     \* the states dict the caller passes to __init__ (the caller's object)
    tdp,            \* the time_dependent_parameters dict passed to __init__
    discrete,       \* self.discrete
    pc,             \* where the program is: "new", "failed", "ready", "draw", "run", "step", "raised"
    err,            \* the error the last operation raised, "none" if none
    inst,           \* the instance's validated attributes (see Construct)
    parameters,     \* self.parameters
    cp,             \* sim's local cp: [alias, val]
    before,         \* history: self.parameters as it was when sim was called
    sim_args,       \* sim's arguments: [time, excess_time, N, draw_fcn], time as the list [t0, t1]
    rep,            \* sim's loop position: the repetition in progress, 1..N
    draw_seen,      \* history: the mapping handed to draw_fcn in each repetition so far
    run,            \* _sim_single / solve_discrete locals: [y0, t, y_prev, y, t_lst]
    last_eval,      \* history: the last evaluation of func: the callables' and integrate's arguments
    out,            \* sim's local out: the dataset built so far
    prev,           \* the call of sim before this one: its arguments and its end
    sims,           \* number of sim calls started
    err_name        \* the parameter or state the message of err names, "" if none

vars == <<cls, arg_parameters, arg_states, tdp, discrete, pc, err, inst, parameters,
          cp, before, sim_args, rep, draw_seen, run, last_eval, out, sims, prev, err_name>>

(***************************************************************************)
(* Bounds of the model.                                                    *)
(***************************************************************************)
MaxAxis == 2    \* largest size of a stratification axis
MaxN == 2       \* largest N of a sim call
MaxT == 2       \* largest end time of a sim call
MaxSims == 2    \* largest number of sim calls in a row on one instance (SpecRepeat)
MaxExcess == 1  \* largest excess_time of a sim call
MaxPop == 2     \* largest population of a stratum (SpecStochastic)

(***************************************************************************)
(* Sequences and dicts.                                                    *)
(***************************************************************************)
RECURSIVE Concat(_)
Concat(ss) ==
    IF ss = <<>> THEN <<>> ELSE Head(ss) \o Concat(Tail(ss))

Reverse(s) ==
    [i \in 1..Len(s) |-> s[Len(s) + 1 - i]]

Range(s) ==
    {s[i] : i \in 1..Len(s)}

RemoveAt(s, i) ==
    SubSeq(s, 1, i - 1) \o SubSeq(s, i + 1, Len(s))

\* the elements of s without repetitions, each at its first place
Dedupe(s) ==
    LET firsts == {i \in 1..Len(s) : \A j \in 1..(i - 1) : s[j] # s[i]}
        rank(i) == Cardinality({j \in firsts : j <= i})
    IN [k \in 1..Cardinality(firsts) |-> s[CHOOSE i \in firsts : rank(i) = k]]

Keys(d) ==
    [i \in 1..Len(d) |-> d[i].k]

Values(d) ==
    [i \in 1..Len(d) |-> d[i].v]

KeySet(d) ==
    {d[i].k : i \in 1..Len(d)}

Has(d, key) ==
    key \in KeySet(d)

Get(d, key) ==
    d[CHOOSE i \in 1..Len(d) : d[i].k = key].v

\* d[key] = val: an existing key keeps its place, a new key goes last
Put(d, key, val) ==
    IF Has(d, key)
    THEN [i \in 1..Len(d) |-> IF d[i].k = key THEN [k |-> key, v |-> val] ELSE d[i]]
    ELSE Append(d, [k |-> key, v |-> val])

\* the dict d as it is, in its own order, whatever keys says
FromKeysSupplied(keys, d) ==
    d

\* {key: d[key] for key in keys}: a repeated key keeps its first place
FromKeys(keys, d) ==
    LET ks == Dedupe(keys)
    IN [i \in 1..Len(ks) |-> [k |-> ks[i], v |-> Get(d, ks[i])]]

(***************************************************************************)
(* numpy arrays.                                                           *)
(***************************************************************************)
RECURSIVE Size(_)
Size(shape) ==
    IF shape = <<>> THEN 1 ELSE Head(shape) * Size(Tail(shape))

Scalar(x) ==
    [shape |-> <<>>, data |-> <<x>>]

Zeros(shape) ==
    [shape |-> shape, data |-> [i \in 1..Size(shape) |-> 0]]

\* iterating an array yields its sub-arrays along the first axis
Iter(a) ==
    LET m == Size(Tail(a.shape))
    IN [i \in 1..Head(a.shape) |->
          [shape |-> Tail(a.shape), data |-> SubSeq(a.data, (i - 1) * m + 1, i * m)]]

\* list(itertools.chain(*arrays))
Chain(arrays) ==
    Concat([i \in 1..Len(arrays) |-> Iter(arrays[i])])

\* np.asarray / np.array of a non-empty list of equally shaped arrays
AsArray(list) ==
    [shape |-> <<Len(list)>> \o list[1].shape,
     data |-> Concat([i \in 1..Len(list) |-> list[i].data])]

\* a.reshape(shape); callers guard Size(shape) = Size(a.shape)
Reshape(a, shape) ==
    [shape |-> shape, data |-> a.data]

Flatten(a) ==
    [shape |-> <<Size(a.shape)>>, data |-> a.data]

(***************************************************************************)
(* Python values: a value is a record [type, value] with the numbers it    *)
(* holds as a tuple, or the text of a string.                              *)
(***************************************************************************)
None ==
    [type |-> "NoneType", value |-> <<>>]

PyInt(n) ==
    [type |-> "int", value |-> <<n>>]

PyList(t0, t1) ==
    [type |-> "list", value |-> <<t0, t1>>]

\* a string: a date, a label
PyStr(date) ==
    [type |-> "str", value |-> date]

\* a one-dimensional array or list of numbers
PyArray(values) ==
    [type |-> "ndarray", value |-> values]

\* np.arange(n)
arange(n) ==
    PyArray([i \in 1..n |-> i - 1])

(***************************************************************************)
(* Model classes: the class attributes of a BaseModel subclass and the     *)
(* argument names of its integrate function.  coordinates is the list of   *)
(* the class, or <<>> when the class leaves it None (the code only tests   *)
(* whether it is empty).                                                   *)
(***************************************************************************)
\* the shape of simple_stochastic_SIR (one axis, no stratified parameters), with two states
ClsSIR ==
    [state_names |-> <<"S", "I">>,
     parameter_names |-> <<"beta", "gamma">>,
     parameters_stratified_names |-> <<>>,
     stratification |-> <<"Nc">>,
     coordinates |-> <<>>,
     integrate_sig |-> <<"t", "S", "I", "beta", "gamma", "Nc">>]

\* the shape of COVID19_SEIRD_spatial: two axes, one group of stratified parameters each
ClsSpatial ==
    [state_names |-> <<"S", "I">>,
     parameter_names |-> <<"beta">>,
     parameters_stratified_names |-> << <<"area">>, <<"s">> >>,
     stratification |-> <<"place", "Nc">>,
     coordinates |-> <<PyStr("place"), None>>,
     integrate_sig |-> <<"t", "S", "I", "beta", "area", "s", "place", "Nc">>]

\* the shape of COVID19_SEIRD_stratified_vacc: two axes, the second group empty
ClsVacc ==
    [state_names |-> <<"S", "I">>,
     parameter_names |-> <<"beta">>,
     parameters_stratified_names |-> << <<"s">>, <<>> >>,
     stratification |-> <<"Nc", "doses">>,
     coordinates |-> <<>>,
     integrate_sig |-> <<"t", "S", "I", "beta", "s", "Nc", "doses">>]

\* a model without stratification
ClsPlain ==
    [state_names |-> <<"S", "I">>,
     parameter_names |-> <<"beta", "gamma">>,
     parameters_stratified_names |-> <<>>,
     stratification |-> <<>>,
     coordinates |-> <<>>,
     integrate_sig |-> <<"t", "S", "I", "beta", "gamma">>]

\* simple_multivariant_SIR as it is declared
ClsMultivariant ==
    [state_names |-> <<"S", "I", "R", "alpha">>,
     parameter_names |-> <<"beta", "gamma", "injection_day", "injection_ratio">>,
     parameters_stratified_names |-> <<>>,
     stratification |-> <<"Nc">>,
     coordinates |-> <<>>,
     integrate_sig |-> <<"t", "S", "I", "R", "alpha", "beta", "gamma", "injection_day",
                         "injection_ratio", "K_inf", "Nc">>]

GoodClasses ==
    {ClsSIR, ClsSpatial, ClsVacc, ClsPlain}

(***************************************************************************)
(* The model classes of models.py as they are declared.  integrate_ret     *)
(* names, for each value of the tuple integrate returns, the state it is   *)
(* the change (or the new value) of.                                       *)
(***************************************************************************)
\* class simple_multivariant_SIR
simple_multivariant_SIR ==
    [state_names |-> <<"S", "I", "R", "alpha">>,
     parameter_names |-> <<"beta", "gamma", "injection_day", "injection_ratio">>,
     parameters_stratified_names |-> <<>>,
     stratification |-> <<"Nc">>,
     coordinates |-> <<>>,
     integrate_sig |-> <<"t", "S", "I", "R", "alpha", "beta", "gamma", "injection_day",
                         "injection_ratio", "K_inf", "Nc">>,
     integrate_ret |-> <<"S", "I", "R", "alpha">>]

\* class simple_stochastic_SIR
simple_stochastic_SIR ==
    [state_names |-> <<"S", "I", "R">>,
     parameter_names |-> <<"beta", "gamma">>,
     parameters_stratified_names |-> <<>>,
     stratification |-> <<"Nc">>,
     coordinates |-> <<>>,
     integrate_sig |-> <<"t", "S", "I", "R", "beta", "gamma", "Nc">>,
     integrate_ret |-> <<"S", "I", "R">>]

\* class COVID19_SEIRD
COVID19_SEIRD ==
    [state_names |-> <<"S", "E", "I", "A", "M", "C", "C_icurec", "ICU", "R", "D",
                        "H_in", "H_out", "H_tot", "R_C", "R_ICU">>,
     parameter_names |-> <<"beta", "sigma", "omega", "zeta", "da", "dm", "dc_R", "dc_D",
                            "dICU_R", "dICU_D", "dICUrec", "dhospital">>,
     parameters_stratified_names |-> << <<"s", "a", "h", "c", "m_C", "m_ICU">> >>,
     stratification |-> <<"Nc">>,
     coordinates |-> <<>>,
     integrate_sig |-> <<"t", "S", "E", "I", "A", "M", "C", "C_icurec", "ICU", "R", "D",
                         "H_in", "H_out", "H_tot", "R_C", "R_ICU", "beta", "sigma",
                         "omega", "zeta", "da", "dm", "dc_R", "dc_D", "dICU_R",
                         "dICU_D", "dICUrec", "dhospital", "s", "a", "h", "c", "m_C",
                         "m_ICU", "Nc">>,
     integrate_ret |-> <<"S", "E", "I", "A", "M", "C", "C_icurec", "ICU", "R", "D",
                         "H_in", "H_out", "H_tot", "R_C", "R_ICU">>]

\* class COVID19_SEIRD_stratified_vacc
COVID19_SEIRD_stratified_vacc ==
    [state_names |-> <<"S", "E", "I", "A", "M", "C", "C_icurec", "ICU", "R", "D",
                        "H_in", "H_out", "H_tot">>,
     parameter_names |-> <<"beta", "alpha", "K_inf1", "K_inf2", "K_hosp", "sigma",
                            "omega", "zeta", "da", "dm", "dICUrec", "dhospital",
                            "N_vacc", "d_vacc", "e_i", "e_s", "e_h">>,
     parameters_stratified_names |-> << <<"s", "a", "h", "c", "m_C", "m_ICU", "dc_R",
            "dc_D", "dICU_R", "dICU_D">>, <<>> >>,
     stratification |-> <<"Nc", "doses">>,
     coordinates |-> <<>>,
     integrate_sig |-> <<"t", "S", "E", "I", "A", "M", "C", "C_icurec", "ICU", "R", "D",
                         "H_in", "H_out", "H_tot", "beta", "alpha", "K_inf1", "K_inf2",
                         "K_hosp", "sigma", "omega", "zeta", "da", "dm", "dICUrec",
                         "dhospital", "N_vacc", "d_vacc", "e_i", "e_s", "e_h", "s", "a",
                         "h", "c", "m_C", "m_ICU", "dc_R", "dc_D", "dICU_R", "dICU_D",
                         "Nc", "doses">>,
     integrate_ret |-> <<"S", "E", "I", "A", "M", "C", "C_icurec", "ICU", "R", "D",
                         "H_in", "H_out", "H_tot">>]

\* class COVID19_SEIRD_vacc
COVID19_SEIRD_vacc ==
    [state_names |-> <<"S", "E", "I", "A", "M", "C", "C_icurec", "ICU", "R", "D",
                        "H_in", "H_out", "H_tot", "R_C", "R_ICU", "S_v", "E_v", "I_v",
                        "A_v", "M_v", "C_v", "C_icurec_v", "ICU_v", "R_v">>,
     parameter_names |-> <<"beta", "alpha", "K_inf1", "K_inf2", "K_hosp", "sigma",
                            "omega", "zeta", "da", "dm", "dc_R", "dc_D", "dICU_R",
                            "dICU_D", "dICUrec", "dhospital", "e_i", "e_s", "e_h",
                            "e_a", "d_vacc">>,
     parameters_stratified_names |-> << <<"s", "a", "h", "c", "m_C", "m_ICU", "N_vacc">>
            >>,
     stratification |-> <<"Nc">>,
     coordinates |-> <<>>,
     integrate_sig |-> <<"t", "S", "E", "I", "A", "M", "C", "C_icurec", "ICU", "R", "D",
                         "H_in", "H_out", "H_tot", "R_C", "R_ICU", "S_v", "E_v", "I_v",
                         "A_v", "M_v", "C_v", "C_icurec_v", "ICU_v", "R_v", "beta",
                         "alpha", "K_inf1", "K_inf2", "K_hosp", "sigma", "omega",
                         "zeta", "da", "dm", "dc_R", "dc_D", "dICU_R", "dICU_D",
                         "dICUrec", "dhospital", "e_i", "e_s", "e_h", "e_a", "d_vacc",
                         "s", "a", "h", "c", "m_C", "m_ICU", "N_vacc", "Nc">>,
     integrate_ret |-> <<"S", "E", "I", "A", "M", "C", "C_icurec", "ICU", "R", "D",
                         "H_in", "H_out", "H_tot", "R_C", "R_ICU", "S_v", "E_v", "I_v",
                         "A_v", "M_v", "C_v", "C_icurec_v", "ICU_v", "R_v">>]

\* class COVID19_SEIRD_spatial
COVID19_SEIRD_spatial ==
    [state_names |-> <<"S", "E", "I", "A", "M", "C", "C_icurec", "ICU", "R", "D",
                        "H_in", "H_out", "H_tot">>,
     parameter_names |-> <<"beta_R", "beta_U", "beta_M", "sigma", "omega", "zeta", "da",
                            "dm", "dhospital", "dc_R", "dc_D", "dICU_R", "dICU_D",
                            "dICUrec", "xi">>,
     parameters_stratified_names |-> << <<"area", "sg", "p">>, <<"s", "a", "h", "c",
            "m_C", "m_ICU">> >>,
     stratification |-> <<"place", "Nc">>,
     coordinates |-> <<PyStr("place"), None>>,
     integrate_sig |-> <<"t", "S", "E", "I", "A", "M", "C", "C_icurec", "ICU", "R", "D",
                         "H_in", "H_out", "H_tot", "beta_R", "beta_U", "beta_M",
                         "sigma", "omega", "zeta", "da", "dm", "dhospital", "dc_R",
                         "dc_D", "dICU_R", "dICU_D", "dICUrec", "xi", "area", "sg", "p",
                         "s", "a", "h", "c", "m_C", "m_ICU", "place", "Nc">>,
     integrate_ret |-> <<"S", "E", "I", "A", "M", "C", "C_icurec", "ICU", "R", "D",
                         "H_in", "H_out", "H_tot">>]

\* class COVID19_SEIRD_spatial_vacc
COVID19_SEIRD_spatial_vacc ==
    [state_names |-> <<"S", "E", "I", "A", "M", "ER", "C", "C_icurec", "ICU", "R", "D",
                        "H_in", "H_out", "H_tot", "VE", "V", "V_new", "alpha">>,
     parameter_names |-> <<"beta_R", "beta_U", "beta_M", "K", "sigma", "omega", "zeta",
                            "da", "dm", "der", "dhospital", "dc_R", "dc_D", "dICU_R",
                            "dICU_D", "dICUrec", "xi", "injection_day",
                            "injection_ratio", "K_inf", "K_hosp">>,
     parameters_stratified_names |-> << <<"area", "sg", "p">>, <<"s", "a", "h", "c",
            "m_C", "m_ICU", "v", "e", "N_vacc", "leakiness">> >>,
     stratification |-> <<"place", "Nc">>,
     coordinates |-> <<PyStr("place"), None>>,
     integrate_sig |-> <<"t", "S", "E", "I", "A", "M", "ER", "C", "C_icurec", "ICU",
                         "R", "D", "H_in", "H_out", "H_tot", "VE", "V", "V_new",
                         "alpha", "beta_R", "beta_U", "beta_M", "K", "sigma", "omega",
                         "zeta", "da", "dm", "der", "dhospital", "dc_R", "dc_D",
                         "dICU_R", "dICU_D", "dICUrec", "xi", "injection_day",
                         "injection_ratio", "K_inf", "K_hosp", "area", "sg", "p", "s",
                         "a", "h", "c", "m_C", "m_ICU", "v", "e", "N_vacc", "leakiness",
                         "place", "Nc">>,
     integrate_ret |-> <<"S", "E", "I", "A", "M", "ER", "C", "C_icurec", "ICU", "R",
                         "D", "H_in", "H_out", "H_tot", "VE", "V_new", "V", "alpha">>]

ModelClasses ==
    {simple_multivariant_SIR, simple_stochastic_SIR, COVID19_SEIRD,
     COVID19_SEIRD_stratified_vacc, COVID19_SEIRD_vacc, COVID19_SEIRD_spatial,
     COVID19_SEIRD_spatial_vacc}

\* c with another integrate signature
WithSig(c, sig) ==
    [c EXCEPT !.integrate_sig = sig]

Swap(s, i, j) ==
    [n \in 1..Len(s) |-> IF n = i THEN s[j] ELSE IF n = j THEN s[i] ELSE s[n]]

\* signatures that break the contract: the time argument, the states, the parameters
BrokenSigs(c) ==
    LET sig == c.integrate_sig
        ns == Len(c.state_names)
    IN { [sig EXCEPT ![1] = "time"],
         Swap(sig, 2, 3),
         Swap(sig, ns + 2, Len(sig)),
         SubSeq(sig, 1, Len(sig) - 1),
         Append(sig, "extra"),
         Swap([sig EXCEPT ![1] = "time"], 2, 3),
         Swap(Swap(sig, 2, 3), ns + 2, Len(sig)) }

(***************************************************************************)
(* __init__ and the validation it runs.  Each operator returns a record    *)
(* whose err field names the exception raised ("none": no exception).      *)
(***************************************************************************)
\* __init__'s loop over self.stratification: the axis sizes
RECURSIVE StratificationSize(_, _)
StratificationSize(axes, params) ==
    IF axes = <<>> THEN [err |-> "none", size |-> <<>>]
    ELSE IF ~Has(params, Head(axes)) THEN [err |-> "ValueError:axis", size |-> <<>>]
    ELSE IF Get(params, Head(axes)).shape = <<>> THEN [err |-> "IndexError", size |-> <<>>]
    ELSE LET rest == StratificationSize(Tail(axes), params)
         IN [err |-> rest.err,
             size |-> <<Get(params, Head(axes)).shape[1]>> \o rest.size]

_validate_parameter_function(sig) ==
    IF Len(sig) < 1 THEN [err |-> "IndexError", kwds |-> <<>>, relative |-> FALSE]
    ELSE IF sig[1] # "t" THEN [err |-> "ValueError:function_t", kwds |-> <<>>, relative |-> FALSE]
    ELSE IF Len(sig) < 2 THEN [err |-> "IndexError", kwds |-> <<>>, relative |-> FALSE]
    ELSE IF sig[2] = "param"
         THEN [err |-> "none", kwds |-> SubSeq(sig, 3, Len(sig)), relative |-> TRUE]
         ELSE [err |-> "none", kwds |-> SubSeq(sig, 2, Len(sig)), relative |-> FALSE]

\* the loop of _validate_time_dependent_parameters over the items of the dict
RECURSIVE ValidateFunctions(_, _)
ValidateFunctions(items, all_param_names) ==
    IF items = <<>> THEN [err |-> "none", kwds |-> <<>>, relative |-> <<>>]
    ELSE IF Head(items).k \notin Range(all_param_names)
         THEN [err |-> "ValueError:function_param", kwds |-> <<>>, relative |-> <<>>]
    ELSE LET one == _validate_parameter_function(Head(items).v)
             rest == ValidateFunctions(Tail(items), all_param_names)
         IN IF one.err # "none" THEN [err |-> one.err, kwds |-> <<>>, relative |-> <<>>]
            ELSE [err |-> rest.err,
                  kwds |-> <<one.kwds>> \o rest.kwds,
                  relative |-> <<one.relative>> \o rest.relative]

_validate_time_dependent_parameters(c, functions) ==
    ValidateFunctions(functions,
        c.parameter_names \o Concat(c.parameters_stratified_names) \o c.stratification)

\* the groups of parameters_stratified_names that are not empty, flattened
StratifiedNames(c) ==
    Concat(c.parameters_stratified_names)

\* specified_params as _validate compares it with integrate's parameters
DeclaredParams(c) ==
    c.parameter_names \o StratifiedNames(c) \o c.stratification

\* ValidateSignature without the comparison of the states
ValidateSignatureNoStates(c) ==
    LET keywords == c.integrate_sig
        N_states == Len(c.state_names)
    IN IF Len(keywords) < 1 THEN "IndexError"
       ELSE IF keywords[1] # "t" THEN "ValueError:integrate_t"
       ELSE IF SubSeq(keywords, 2 + N_states, Len(keywords)) # DeclaredParams(c)
            THEN "ValueError:integrate_params"
       ELSE "none"

\* the check of integrate's signature in _validate
ValidateSignature(c) ==
    LET keywords == c.integrate_sig
        N_states == Len(c.state_names)
    IN IF Len(keywords) < 1 THEN "IndexError"
       ELSE IF keywords[1] # "t" THEN "ValueError:integrate_t"
       ELSE IF SubSeq(keywords, 2, 1 + N_states) # c.state_names
            THEN "ValueError:integrate_states"
       ELSE IF SubSeq(keywords, 2 + N_states, Len(keywords)) # DeclaredParams(c)
            THEN "ValueError:integrate_params"
       ELSE "none"

\* extra_params of _validate: the callables' keywords, repetitions removed
ExtraParams(function_parameters) ==
    Dedupe(Concat(function_parameters))

\* ParametersMatch that accepts redundant parameters
ParametersMatchMissingOnly(params, specified_params) ==
    Range(specified_params) \subseteq KeySet(params)

\* set(self.parameters.keys()) == set(specified_params)
ParametersMatch(params, specified_params) ==
    KeySet(params) = Range(specified_params)

\* the check of a group without the comparison of the lengths
RECURSIVE ValidateGroupNoLength(_, _, _)
ValidateGroupNoLength(names, params, size) ==
    IF names = <<>> THEN [err |-> "none", name |-> ""]
    ELSE IF Len(Get(params, Head(names)).shape) # 1
         THEN [err |-> "ValueError:ndim", name |-> Head(names)]
         ELSE ValidateGroupNoLength(Tail(names), params, size)

\* validate_stratified_parameters for the parameters of group i
RECURSIVE ValidateGroup(_, _, _)
ValidateGroup(names, params, size) ==
    IF names = <<>> THEN [err |-> "none", name |-> ""]
    ELSE LET values == Get(params, Head(names))
         IN IF Len(values.shape) # 1
            THEN [err |-> "ValueError:ndim", name |-> Head(names)]
            ELSE IF values.shape[1] # size
            THEN [err |-> "ValueError:length", name |-> Head(names)]
            ELSE ValidateGroup(Tail(names), params, size)

\* the loop of _validate over parameters_stratified_names, from group i on
RECURSIVE ValidateStratified(_, _, _, _)
ValidateStratified(groups, i, params, stratification_size) ==
    IF i > Len(groups) THEN [err |-> "none", name |-> ""]
    ELSE LET e == IF groups[i] = <<>> THEN [err |-> "none", name |-> ""]
                  ELSE IF i > Len(stratification_size)
                  THEN [err |-> "IndexError", name |-> ""]
                  ELSE ValidateGroup(groups[i], params, stratification_size[i])
         IN IF e.err # "none" THEN e
            ELSE ValidateStratified(groups, i + 1, params, stratification_size)

\* the loop over state_names without the default: an absent state stays absent
RECURSIVE FillStatesSkip(_, _, _)
FillStatesSkip(names, states, stratification_size) ==
    IF names = <<>> THEN [err |-> "none", name |-> "", states |-> states]
    ELSE IF Has(states, Head(names))
            /\ Get(states, Head(names)).shape # stratification_size
         THEN [err |-> "ValueError:state_shape", name |-> Head(names),
               states |-> states]
         ELSE FillStatesSkip(Tail(names), states, stratification_size)

\* the loop of _validate over state_names: checks the shapes and fills in zeros,
\* in the dict it was given
RECURSIVE FillStates(_, _, _)
FillStates(names, states, stratification_size) ==
    IF names = <<>> THEN [err |-> "none", name |-> "", states |-> states]
    ELSE IF Has(states, Head(names))
         THEN IF Get(states, Head(names)).shape # stratification_size
              THEN [err |-> "ValueError:state_shape", name |-> Head(names),
                    states |-> states]
              ELSE FillStates(Tail(names), states, stratification_size)
         ELSE FillStates(Tail(names),
                         Put(states, Head(names), Zeros(stratification_size)),
                         stratification_size)

\* _validate: err, the new self.parameters and self.initial_states,
\* _n_function_params, and the dict passed as states as the call leaves it
_validate(c, params, states, stratification_size, function_parameters) ==
    LET sigerr == ValidateSignature(c)
        extra_params == ExtraParams(function_parameters)
        specified_params ==
            IF function_parameters # <<>>
            THEN DeclaredParams(c) \o extra_params
            ELSE DeclaredParams(c)
        n_function_params ==
            IF function_parameters # <<>> THEN Len(extra_params) ELSE 0
        fail(e, st) ==
            [err |-> e, err_name |-> "", parameters |-> params, initial_states |-> st,
             n_function_params |-> n_function_params, caller_states |-> st]
    IN IF sigerr # "none" THEN fail(sigerr, states)
       ELSE IF ~ParametersMatch(params, specified_params)
            THEN fail("ValueError:parameters", states)
       ELSE LET new_params == FromKeys(specified_params, params)
                strerr == ValidateStratified(c.parameters_stratified_names, 1,
                                             new_params, stratification_size)
                filled == FillStates(c.state_names, states, stratification_size)
            IN IF strerr.err # "none"
               THEN [fail(strerr.err, states) EXCEPT !.parameters = new_params,
                                                     !.err_name = strerr.name]
               ELSE IF filled.err # "none"
               THEN [fail(filled.err, filled.states) EXCEPT !.parameters = new_params,
                                                            !.err_name = filled.name]
               ELSE IF KeySet(filled.states) # Range(c.state_names)
               THEN [fail("ValueError:states", filled.states)
                        EXCEPT !.parameters = new_params]
               ELSE [err |-> "none",
                     err_name |-> "",
                     parameters |-> new_params,
                     initial_states |-> FromKeys(c.state_names, filled.states),
                     n_function_params |-> n_function_params,
                     caller_states |-> filled.states]

\* BaseModel.__init__
__init__(c, params, states, functions) ==
    LET strat == IF c.stratification # <<>>
                 THEN StratificationSize(c.stratification, params)
                 ELSE [err |-> "none", size |-> <<1>>]
        fun == IF functions # <<>>
               THEN _validate_time_dependent_parameters(c, functions)
               ELSE [err |-> "none", kwds |-> <<>>, relative |-> <<>>]
        val == _validate(c, params, states, strat.size, fun.kwds)
        failed(e) ==
            [err |-> e, err_name |-> "", parameters |-> params,
             initial_states |-> states,
             stratification_size |-> strat.size,
             function_parameters |-> <<>>, relative_time_dependent_value |-> <<>>,
             n_function_params |-> 0, caller_states |-> states]
    IN IF strat.err # "none" THEN failed(strat.err)
       ELSE IF fun.err # "none" THEN failed(fun.err)
       ELSE [err |-> val.err,
             err_name |-> val.err_name,
             parameters |-> val.parameters,
             initial_states |-> val.initial_states,
             stratification_size |-> strat.size,
             function_parameters |-> fun.kwds,
             relative_time_dependent_value |-> fun.relative,
             n_function_params |-> val.n_function_params,
             caller_states |-> val.caller_states]

(***************************************************************************)
(* The inputs of a construction.                                           *)
(***************************************************************************)
\* the value a caller stores under a name: every name has its own number
NameVal(name) ==
    CASE name = "beta" -> 2
      [] name = "gamma" -> 3
      [] name = "l" -> 5
      [] name = "tau" -> 7
      [] name = "area" -> 11
      [] name = "s" -> 13
      [] OTHER -> 17

AxisIndex(c, name) ==
    CHOOSE i \in 1..Len(c.stratification) : c.stratification[i] = name

GroupIndex(c, name) ==
    CHOOSE i \in 1..Len(c.parameters_stratified_names) :
        name \in Range(c.parameters_stratified_names[i])

\* a well-formed value for parameter name: the axis parameter of axis i has
\* sizes[i] rows, a stratified parameter of group i is a vector of length sizes[i],
\* any other parameter is a scalar
ParamValue(c, sizes, name) ==
    IF name \in Range(c.stratification)
    THEN LET n == sizes[AxisIndex(c, name)]
         IN IF name = "Nc" THEN [shape |-> <<n, n>>, data |-> [i \in 1..(n * n) |-> 1]]
            ELSE [shape |-> <<n>>, data |-> [i \in 1..n |-> 1]]
    ELSE IF name \in Range(StratifiedNames(c))
    THEN LET n == sizes[GroupIndex(c, name)]
         IN [shape |-> <<n>>, data |-> [i \in 1..n |-> NameVal(name)]]
    ELSE Scalar(NameVal(name))

ParamDict(c, sizes, keys) ==
    [i \in 1..Len(keys) |-> [k |-> keys[i], v |-> ParamValue(c, sizes, keys[i])]]

\* the shapes a caller may give a stratified parameter of an axis of size n:
\* the vector of length n, a longer vector, a matrix, a scalar
ShapeKinds ==
    {"vector", "long", "matrix", "scalar"}

StratifiedShape(n, kind) ==
    CASE kind = "vector" -> <<n>>
      [] kind = "long" -> <<n + 1>>
      [] kind = "matrix" -> <<n, n>>
      [] kind = "scalar" -> <<>>

\* the parameters dict with a stratified parameter name of the shape kinds[name]
ParamDictShaped(c, sizes, keys, kinds) ==
    [i \in 1..Len(keys) |->
        IF keys[i] \in Range(StratifiedNames(c))
        THEN LET shape == StratifiedShape(sizes[GroupIndex(c, keys[i])], kinds[keys[i]])
             IN [k |-> keys[i],
                 v |-> [shape |-> shape,
                        data |-> [j \in 1..Size(shape) |-> NameVal(keys[i])]]]
        ELSE [k |-> keys[i], v |-> ParamValue(c, sizes, keys[i])]]

\* the initial value of the k-th state: every element has its own number
StateValue(shape, k) ==
    [shape |-> shape, data |-> [j \in 1..Size(shape) |-> 10 * k + j]]

StateDict(shape, keys, names) ==
    [i \in 1..Len(keys) |->
        [k |-> keys[i],
         v |-> IF keys[i] \in Range(names)
               THEN StateValue(shape, CHOOSE n \in 1..Len(names) : names[n] = keys[i])
               ELSE StateValue(shape, 0)]]

\* time_dependent_parameters dicts: name -> the argument names of the callable
NoFunctions == <<>>
RelativeFunction == << [k |-> "beta", v |-> <<"t", "param", "l">>] >>
AbsoluteFunction == << [k |-> "beta", v |-> <<"t", "l", "tau">>] >>
OnlyTimeFunction == << [k |-> "beta", v |-> <<"t">>] >>
BadTimeFunction == << [k |-> "beta", v |-> <<"x", "param">>] >>
UnknownFunction == << [k |-> "zzz", v |-> <<"t", "param">>] >>

LastDeclared(c) ==
    DeclaredParams(c)[Len(DeclaredParams(c))]

\* two callables that share the auxiliary argument l
TwoFunctions(c) ==
    << [k |-> "beta", v |-> <<"t", "param", "l">>],
       [k |-> LastDeclared(c), v |-> <<"t", "l", "tau">>] >>

\* the second callable takes the time-dependent parameter beta as an argument
ChainedFunctions(c) ==
    << [k |-> "beta", v |-> <<"t", "param", "l">>],
       [k |-> LastDeclared(c), v |-> <<"t", "beta", "l">>] >>

ValidFunctions(c) ==
    {NoFunctions, RelativeFunction, AbsoluteFunction, TwoFunctions(c), ChainedFunctions(c)}

AllFunctions(c) ==
    ValidFunctions(c) \cup {OnlyTimeFunction, BadTimeFunction, UnknownFunction}

RECURSIVE Without(_, _)
Without(s, x) ==
    IF s = <<>> THEN <<>>
    ELSE IF Head(s) = x THEN Without(Tail(s), x)
    ELSE <<Head(s)>> \o Without(Tail(s), x)

\* the argument names of the callables other than the time and 'param'
NamedByFunctions(functions) ==
    Dedupe(Without(Concat([i \in 1..Len(functions) |-> Tail(functions[i].v)]), "param"))

\* the keys a caller has to supply
RequiredKeys(c, functions) ==
    Dedupe(DeclaredParams(c) \o NamedByFunctions(functions))

\* key lists a caller may supply: the required ones in two orders, one missing, one extra
KeyChoices(required, extra) ==
    {required, Reverse(required), Append(required, extra)}
        \cup {RemoveAt(required, i) : i \in 1..Len(required)}

StateShape(c, sizes) ==
    IF c.stratification = <<>> THEN <<1>> ELSE sizes

Sizes(c) ==
    [1..Len(c.stratification) -> 1..MaxAxis]

(***************************************************************************)
(* Dates: a date string is a string, a Timestamp the number of its day in  *)
(* 2020.                                                                   *)
(***************************************************************************)
\* the default of sim's start_date
DefaultStartDate ==
    "2020-03-15"

\* pd.to_datetime(date)
to_datetime(date) ==
    CASE date = "2020-03-15" -> 75
      [] date = "2020-03-16" -> 76
      [] date = "2020-03-17" -> 77
      [] date = "2020-03-18" -> 78
      [] date = "2020-03-19" -> 79

\* the end dates a caller passes: the start date and up to MaxT days after it
EndDates ==
    {date \in {"2020-03-15", "2020-03-16", "2020-03-17", "2020-03-18", "2020-03-19"} :
        to_datetime(date) - to_datetime(DefaultStartDate) <= MaxT}

\* date_to_diff: int((to_datetime(date) - to_datetime(start_date)) / 1 day)
\* + excess_time, a TypeError when excess_time is None
date_to_diff(start_date, date, excess_time) ==
    IF excess_time.type # "int" THEN [err |-> "TypeError", value |-> 0]
    ELSE [err |-> "none",
          value |-> (to_datetime(date) - to_datetime(start_date)) + excess_time.value[1]]

\* int_to_date: to_datetime(start_date) + (t - excess_time) days
int_to_date(start_date, t, excess_time) ==
    to_datetime(start_date) + (t - excess_time.value[1])

(***************************************************************************)
(* The plugins.  A time-dependent callable and the transition function are *)
(* supplied by the caller; the model fixes one of each.                    *)
(***************************************************************************)
\* what a time-dependent callable returns at time t for a parameter whose stored
\* value is stored: a value of the same shape that differs from every stored one
FunctionResult(t, stored) ==
    [shape |-> stored.shape, data |-> [i \in 1..Len(stored.data) |-> 100 + t]]

\* an integrate that is not a function of its arguments: it adds the number of
\* sim calls made on the instance so far
IntegrateCounting(states, model_pars) ==
    [k \in 1..Len(states) |->
        [shape |-> states[k].shape,
         data |-> [j \in 1..Len(states[k].data) |-> states[k].data[j] + sims]]]

\* what integrate returns: for each state, its array with the first parameter's
\* (first) number added to every element
IntegrateResult(states, model_pars) ==
    [k \in 1..Len(states) |->
        [shape |-> states[k].shape,
         data |-> [j \in 1..Len(states[k].data) |->
                      states[k].data[j] + model_pars[1].data[1]]]]

(***************************************************************************)
(* simple_stochastic_SIR.integrate.  S, I, R are the vectors of the        *)
(* states' numbers, one per stratum; a probability is "nan", "zero" or     *)
(* "positive" (above 0 and below 1).                                       *)
(***************************************************************************)
RECURSIVE Sum(_)
Sum(s) ==
    IF s = <<>> THEN 0 ELSE Head(s) + Sum(Tail(s))

\* probabilities[0][j] = 1 - exp(-beta * matmul(Nc, I / T))[j], T = S + I + R:
\* a stratum without population makes I / T hold 0 / 0, and every element of
\* the product nan
ProbabilityStoI(S, I, R, beta, Nc, j) ==
    LET n == Len(S)
    IN IF \E k \in 1..n : S[k] + I[k] + R[k] = 0 THEN "nan"
       ELSE IF beta * Sum([k \in 1..n |-> Nc[(j - 1) * n + k] * I[k]]) = 0 THEN "zero"
       ELSE "positive"

\* probabilities[1][j] = 1 - exp(-l * gamma), l = 1.0
ProbabilityItoR(gamma) ==
    IF gamma = 0 THEN "zero" ELSE "positive"

\* a draw that may exceed the number it is drawn from
BinomialAbove(n, p) ==
    IF p = "zero" THEN {0} ELSE 0..(n + 1)

\* np.rint(np.mean(draw)) for the n = 5 draws np.random.binomial(n, p): each
\* draw is in 0..n, and so is the rounded mean; every value is possible when
\* 0 < p < 1
Binomial(n, p) ==
    IF p = "zero" THEN {0} ELSE 0..n

\* np.random.binomial raises ValueError when p is nan
BinomialRaises(p) ==
    p = "nan"

\* the values prop may take for a state with the numbers X and the
\* probabilities P: 0 where the state is not positive, else a draw
Propensities(X, P) ==
    {d \in [1..Len(X) -> 0..(MaxPop + 1)] :
        \A j \in 1..Len(X) :
            d[j] \in (IF X[j] <= 0 THEN {0} ELSE Binomial(X[j], P[j]))}

\* a draw is needed where the probability is nan
PropensityRaises(X, P) ==
    \E j \in 1..Len(X) : X[j] > 0 /\ BinomialRaises(P[j])

\* output[i][output[i] < 0] = 0
Clamp(X) ==
    [j \in 1..Len(X) |-> IF X[j] < 0 THEN 0 ELSE X[j]]

\* probabilities of integrate(t, S, I, R, beta, gamma, Nc)
Probabilities(states, model_pars) ==
    LET S == states[1].data
        I == states[2].data
        R == states[3].data
    IN [StoI |-> [j \in 1..Len(S) |->
                     ProbabilityStoI(S, I, R, model_pars[1].data[1],
                                     model_pars[3].data, j)],
        ItoR |-> [j \in 1..Len(S) |-> ProbabilityItoR(model_pars[2].data[1])]]

\* integrate raises: in the draws of StoI, which come first, or of ItoR
StochasticRaises(states, model_pars) ==
    LET P == Probabilities(states, model_pars)
    IN \/ PropensityRaises(states[1].data, P.StoI)
       \/ PropensityRaises(states[2].data, P.ItoR)

\* the tuples (S_new, I_new, R_new) integrate may return
StochasticResults(states, model_pars) ==
    LET S == states[1].data
        I == states[2].data
        R == states[3].data
        P == Probabilities(states, model_pars)
        n == Len(S)
        arr(X) == [shape |-> states[1].shape, data |-> Clamp(X)]
    IN {<<arr([j \in 1..n |-> S[j] - StoI[j]]),
          arr([j \in 1..n |-> I[j] + StoI[j] - ItoR[j]]),
          arr([j \in 1..n |-> R[j] + ItoR[j]])>> :
            StoI \in Propensities(S, P.StoI), ItoR \in Propensities(I, P.ItoR)}

(***************************************************************************)
(* func, the function _create_fun returns.                                 *)
(***************************************************************************)
\* the loop over self.time_dependent_parameters, from the i-th callable on:
\* params is the working copy, pars the mapping func was called with
RECURSIVE UpdateTimeDependent(_, _, _, _, _, _)
UpdateTimeDependent(i, functions, ins, t, params, pars) ==
    IF i > Len(functions) THEN [err |-> "none", params |-> params, calls |-> <<>>]
    ELSE LET param == functions[i].k
             keys == ins.function_parameters[i]
             relative == ins.relative_time_dependent_value[i]
         IN IF \E n \in 1..Len(keys) : ~Has(params, keys[n])
            THEN [err |-> "KeyError", params |-> params, calls |-> <<>>]
            ELSE IF ~Has(pars, param)
            THEN [err |-> "KeyError", params |-> params, calls |-> <<>>]
            ELSE LET func_params == [n \in 1..Len(keys) |->
                                        [k |-> keys[n], v |-> Get(params, keys[n])]]
                     call == [param |-> param,
                              relative |-> relative,
                              previous |-> IF relative THEN <<Get(pars, param)>> ELSE <<>>,
                              func_params |-> func_params]
                     rest == UpdateTimeDependent(i + 1, functions, ins, t,
                                 Put(params, param, FunctionResult(t, Get(pars, param))),
                                 pars)
                 IN [err |-> rest.err, params |-> rest.params,
                     calls |-> <<call>> \o rest.calls]

\* list(params.values())[:-n] for n > 0, all the values for n = 0
ModelPars(params, n_function_params) ==
    IF n_function_params > 0
    THEN SubSeq(Values(params), 1, Len(params) - n_function_params)
    ELSE Values(params)

\* Expand with the states as the last axis instead of the first
ExpandStatesLast(c, ins, y) ==
    Reshape(y, ins.stratification_size \o <<Len(c.state_names)>>)

\* y.reshape((len(state_names), *stratification_size))
Expand(c, ins, y) ==
    Reshape(y, <<Len(c.state_names)>> \o ins.stratification_size)

\* func without the copy: params is pars itself, and what is written to params
\* is written to pars
ParsAfterAliased(pars, params) ==
    params

\* pars after an evaluation that wrote to params: params = pars.copy() is
\* another dict, so pars holds what it held
ParsAfter(pars, params) ==
    pars

\* func(t, y, pars): integrate_fails says whether the transition function raises
func(c, functions, ins, start_date, excess_time, t, y, pars, integrate_fails) ==
    LET date == IF excess_time.type # "NoneType"
                THEN int_to_date(start_date, t, excess_time)
                ELSE t
        upd == IF functions # <<>>
               THEN UpdateTimeDependent(1, functions, ins, date, pars, pars)
               ELSE [err |-> "none", params |-> pars, calls |-> <<>>]
        model_pars == ModelPars(upd.params, ins.n_function_params)
        size_lst == <<Len(c.state_names)>> \o ins.stratification_size
        y_reshaped == Expand(c, ins, y)
        states == Iter(y_reshaped)
        ev(e, mp, yr, res) ==
            [err |-> e, t |-> t, calls |-> upd.calls, model_pars |-> mp,
             y_reshaped |-> yr, result |-> res, pars |-> ParsAfter(pars, upd.params)]
    IN IF upd.err # "none" THEN ev(upd.err, <<>>, <<>>, <<>>)
       ELSE IF Size(size_lst) # Size(y.shape) THEN ev("ValueError:reshape", model_pars, <<>>, <<>>)
       ELSE IF Len(states) + Len(model_pars) # Len(c.integrate_sig) - 1
            THEN ev("TypeError", model_pars, <<y_reshaped>>, <<>>)
       ELSE IF integrate_fails THEN ev("ArithmeticError", model_pars, <<y_reshaped>>, <<>>)
       ELSE ev("none", model_pars, <<y_reshaped>>,
               <<Flatten(AsArray(IntegrateResult(states, model_pars)))>>)

(***************************************************************************)
(* sim's locals and the draw functions.                                    *)
(***************************************************************************)
\* cp = self.parameters: no copy, cp is another name of the same dict
aliascopy(d) ==
    [alias |-> TRUE, val |-> d]

\* copy.deepcopy(self.parameters): a new object, so not an alias of the original
deepcopy(d) ==
    [alias |-> FALSE, val |-> d]

\* the draw functions a caller may pass; "none" stands for draw_fcn=None
DrawFunctions ==
    {"none", "assign", "fresh", "derived", "reordered"}

\* the value the draw function takes from samples in repetition k: every
\* repetition draws another one
DrawSample(k) ==
    Scalar(20 + k)

\* "assign", "derived": change param_dict itself and return it
InPlace(draw_fcn) ==
    draw_fcn \in {"assign", "derived"}

\* the mapping draw_fcn(param_dict, samples) returns
DrawResult(draw_fcn, param_dict, sample) ==
    CASE draw_fcn = "assign" -> Put(param_dict, "beta", sample)
      [] draw_fcn = "fresh" -> Put(param_dict, "beta", sample)
      [] draw_fcn = "derived" -> Put(Put(param_dict, "beta", sample), "R0", sample)
      [] draw_fcn = "reordered" -> Reverse(Put(param_dict, "beta", sample))

NoRun ==
    [y0 |-> <<>>, t |-> 0, y_prev |-> <<>>, y |-> <<>>, t_lst |-> <<>>]

NoEval ==
    [err |-> "none", t |-> 0, calls |-> <<>>, model_pars |-> <<>>,
     y_reshaped |-> <<>>, result |-> <<>>, pars |-> <<>>]

NoInst ==
    [initial_states |-> <<>>, stratification_size |-> <<>>,
     function_parameters |-> <<>>, relative_time_dependent_value |-> <<>>,
     n_function_params |-> 0]

NoSim ==
    [time |-> <<0, 0>>, excess_time |-> None, N |-> 1, draw_fcn |-> "none"]

NoOut ==
    [dims |-> <<>>, coords |-> <<>>, data |-> <<>>, t |-> <<>>, y |-> <<>>, attrs |-> <<>>]

NoPrev ==
    [sim_args |-> NoSim, before |-> <<>>, pc |-> "ready", out |-> NoOut]

(***************************************************************************)
(* Initial states: a class, the arguments of __init__, nothing built yet.  *)
(***************************************************************************)
Start(c, functions, params, states, d) ==
    /\ cls = c
    /\ tdp = functions
    /\ arg_parameters = params
    /\ arg_states = states
    /\ discrete = d
    /\ pc = "new"
    /\ err = "none"
    /\ inst = NoInst
    /\ parameters = <<>>
    /\ cp = deepcopy(<<>>)
    /\ before = <<>>
    /\ sim_args = NoSim
    /\ rep = 0
    /\ draw_seen = <<>>
    /\ run = NoRun
    /\ last_eval = NoEval
    /\ out = NoOut
    /\ sims = 0
    /\ prev = NoPrev
    /\ err_name = ""

\* well-formed arguments for a class that satisfies its contract
Init ==
    \E c \in GoodClasses :
    \E functions \in ValidFunctions(c) :
    \E sizes \in Sizes(c) :
    \E d \in BOOLEAN :
        Start(c, functions,
              ParamDict(c, sizes, RequiredKeys(c, functions)),
              StateDict(StateShape(c, sizes), c.state_names, c.state_names),
              d)

\* the states dict with every number negated: __init__ looks at the keys and
\* the shapes of the initial states, not at their values
Negated(states) ==
    [i \in 1..Len(states) |->
        [k |-> states[i].k,
         v |-> [shape |-> states[i].v.shape,
                data |-> [j \in 1..Len(states[i].v.data) |-> 0 - states[i].v.data[j]]]]]

\* discrete models, with initial states above or below zero
InitDiscrete ==
    \E c \in GoodClasses :
    \E functions \in ValidFunctions(c) :
    \E sizes \in Sizes(c) :
    \E below \in BOOLEAN :
        LET states == StateDict(StateShape(c, sizes), c.state_names, c.state_names)
        IN Start(c, functions,
                 ParamDict(c, sizes, RequiredKeys(c, functions)),
                 IF below THEN Negated(states) ELSE states,
                 TRUE)

\* any class, with well-formed and ill-formed arguments
ConstructClasses ==
    GoodClasses \cup {ClsMultivariant}
        \cup {WithSig(ClsSIR, sig) : sig \in BrokenSigs(ClsSIR)}
        \cup {WithSig(ClsSpatial, sig) : sig \in BrokenSigs(ClsSpatial)}

InitConstruct ==
    \E c \in ConstructClasses :
    \E functions \in AllFunctions(c) :
    \E sizes \in Sizes(c) :
    \E keys \in KeyChoices(RequiredKeys(c, functions), "extra") :
    \E skeys \in KeyChoices(c.state_names, "X") :
        Start(c, functions,
              ParamDict(c, sizes, keys),
              StateDict(StateShape(c, sizes), skeys, c.state_names),
              FALSE)

(***************************************************************************)
(* Actions.                                                                *)
(***************************************************************************)
\* model = Class(states, parameters, time_dependent_parameters, discrete)
Construct ==
    /\ pc = "new"
    /\ LET r == __init__(cls, arg_parameters, arg_states, tdp)
       IN /\ err' = r.err
          /\ err_name' = r.err_name
          /\ pc' = IF r.err = "none" THEN "ready" ELSE "failed"
          /\ parameters' = r.parameters
          /\ arg_states' = r.caller_states
          /\ inst' = [initial_states |-> r.initial_states,
                      stratification_size |-> r.stratification_size,
                      function_parameters |-> r.function_parameters,
                      relative_time_dependent_value |-> r.relative_time_dependent_value,
                      n_function_params |-> r.n_function_params]
    /\ UNCHANGED <<cls, arg_parameters, tdp, discrete, cp, before, sim_args, rep,
                   draw_seen, run, last_eval, out, sims, prev>>

\* the calls sim(t1, N=N, draw_fcn=draw_fcn) with an integer time; N below 1
\* is accepted like any other integer
Calls ==
    {[time |-> PyInt(t1), excess_time |-> None, N |-> N, draw_fcn |-> draw_fcn] :
        t1 \in 0..MaxT, N \in 0..MaxN, draw_fcn \in DrawFunctions}

\* the calls sim([t0, t1], N=N, draw_fcn=draw_fcn), with t0 before, at or after
\* t1, and those of Calls
SpanCalls ==
    Calls \cup {[time |-> PyList(t0, t1), excess_time |-> None, N |-> N,
                 draw_fcn |-> draw_fcn] :
                    t0 \in 1..MaxT, t1 \in 1..MaxT, N \in 1..MaxN,
                    draw_fcn \in DrawFunctions}

\* the calls sim(t1, N=N), N >= 1: no draw function
RepeatCalls ==
    {call \in Calls : call.draw_fcn = "none" /\ call.N >= 1}

\* the calls sim(date, N=N, draw_fcn=draw_fcn) and
\* sim(date, excess_time=e, N=N, draw_fcn=draw_fcn) with a date string
DateCalls ==
    {[time |-> PyStr(date), excess_time |-> excess_time, N |-> N, draw_fcn |-> draw_fcn] :
        date \in EndDates, excess_time \in {None} \cup {PyInt(e) : e \in 0..MaxExcess},
        N \in 1..MaxN, draw_fcn \in DrawFunctions}

\* the first lines of sim: time as the list [t0, t1]
TimeSpan(time, start_date, excess_time) ==
    CASE time.type = "int" -> [err |-> "none", time |-> <<0, time.value[1]>>]
      [] time.type = "str" ->
           LET diff == date_to_diff(start_date, time.value, excess_time)
           IN [err |-> diff.err, time |-> <<0, diff.value>>]
      [] time.type = "list" -> [err |-> "none", time |-> time.value]

\* sim(time, excess_time, N=N, draw_fcn=draw_fcn) up to the first draw, for at
\* most limit calls on one instance, each one of calls; a call ends here when
\* its time cannot be converted
SimBegin(limit, calls) ==
    /\ pc \in {"ready", "raised"}
    /\ inst # NoInst
    /\ sims < limit
    /\ \E call \in calls :
          LET span == TimeSpan(call.time, DefaultStartDate, call.excess_time)
          IN /\ sim_args' = [time |-> span.time, excess_time |-> call.excess_time,
                             N |-> call.N, draw_fcn |-> call.draw_fcn]
             /\ err' = span.err
             /\ pc' = IF span.err = "none" THEN "draw" ELSE "raised"
             /\ cp' = IF span.err = "none" THEN deepcopy(parameters) ELSE cp
    /\ before' = parameters
    /\ rep' = 1
    /\ draw_seen' = <<>>
    /\ out' = NoOut
    /\ run' = NoRun
    /\ last_eval' = NoEval
    /\ sims' = sims + 1
    /\ prev' = [sim_args |-> sim_args, before |-> before, pc |-> pc, out |-> out]
    /\ UNCHANGED <<cls, arg_parameters, arg_states, tdp, discrete, inst, parameters,
                   err_name>>

\* if draw_fcn: self.parameters = draw_fcn(self.parameters, samples)
Draw ==
    /\ pc = "draw"
    /\ IF sim_args.draw_fcn = "none"
       THEN UNCHANGED <<parameters, cp, draw_seen>>
       ELSE /\ LET new == DrawResult(sim_args.draw_fcn, parameters, DrawSample(rep))
               IN /\ parameters' = new
                  /\ cp' = IF cp.alias
                           THEN IF InPlace(sim_args.draw_fcn)
                                THEN [cp EXCEPT !.val = new]
                                ELSE [cp EXCEPT !.alias = FALSE]
                           ELSE cp
            /\ draw_seen' = Append(draw_seen, parameters)
    /\ pc' = "run"
    /\ UNCHANGED <<cls, arg_parameters, arg_states, tdp, discrete, err, inst, before,
                   sim_args, rep, run, last_eval, out, sims, prev, err_name>>

\* the draw function raises: sim ends there
DrawRaises ==
    /\ pc = "draw"
    /\ sim_args.draw_fcn # "none"
    /\ draw_seen' = Append(draw_seen, parameters)
    /\ err' = "DrawError"
    /\ pc' = "raised"
    /\ UNCHANGED <<cls, arg_parameters, arg_states, tdp, discrete, inst, parameters, cp,
                   before, sim_args, rep, run, last_eval, out, sims, prev, err_name>>

\* list(itertools.chain(*self.initial_states.values())): what _sim_single hands
\* to solve_ivp or solve_discrete as the initial vector
InitialVector(initial_states) ==
    Chain(Values(initial_states))

\* solve_ivp's check of y0, np.asarray(y0).ndim == 1 (scipy)
SolverAccepts(y0) ==
    Len(AsArray(y0).shape) = 1

\* _sim_single up to the first evaluation of fun
RunBegin ==
    /\ pc = "run"
    /\ LET y0 == InitialVector(inst.initial_states)
           y == AsArray(y0)
       IN IF ~discrete /\ ~SolverAccepts(y0)
          THEN /\ err' = "ValueError:y0"
               /\ pc' = "raised"
               /\ run' = [NoRun EXCEPT !.y0 = y0]
          ELSE /\ err' = "none"
               /\ pc' = "step"
               /\ run' = [y0 |-> y0,
                          t |-> sim_args.time[1],
                          y_prev |-> IF discrete THEN Reshape(y, <<Size(y.shape), 1>>) ELSE y,
                          y |-> <<y.data>>,
                          t_lst |-> <<sim_args.time[1]>>]
    /\ last_eval' = NoEval
    /\ UNCHANGED <<cls, arg_parameters, arg_states, tdp, discrete, inst, parameters, cp,
                   before, sim_args, rep, draw_seen, out, sims, prev, err_name>>

\* the next state vector as the last one plus what fun returned, in either mode
AdvanceAdd(y_prev, result) ==
    [shape |-> result.shape,
     data |-> [j \in 1..Len(result.data) |-> y_prev.data[j] + result.data[j]]]

\* the next state vector: in discrete mode what fun returned (solve_discrete);
\* in continuous mode one explicit step of size 1, which stands for solve_ivp's
\* own stepping between two points of t_eval
Advance(y_prev, result) ==
    IF discrete THEN result
    ELSE [shape |-> result.shape,
          data |-> [j \in 1..Len(result.data) |-> y_prev.data[j] + result.data[j]]]

\* args with the values the callables returned at the last evaluation put in
RunArgsFedBack(pars, ev) ==
    [i \in 1..Len(pars) |->
        IF \E n \in 1..Len(ev.calls) : ev.calls[n].param = pars[i].k
        THEN [k |-> pars[i].k, v |-> FunctionResult(ev.t, pars[i].v)]
        ELSE pars[i]]

\* the args the solver hands to fun at every evaluation of a run:
\* args=self.parameters, whatever the evaluation before returned
RunArgs(pars, ev) ==
    pars

\* a loop that makes one more pass when t has reached the end of the span
LoopConditionInclusive(t, time) ==
    t <= time[2]

\* while t < time[1]: the condition of solve_discrete's loop
LoopCondition(t, time) ==
    t < time[2]

\* one pass of solve_discrete's loop (one evaluation of fun by the solver)
Step ==
    /\ pc = "step"
    /\ LoopCondition(run.t, sim_args.time)
    /\ LET ev == func(cls, tdp, inst, DefaultStartDate, sim_args.excess_time,
                      run.t, run.y_prev, RunArgs(parameters, last_eval), FALSE)
       IN /\ ev.err = "none"
          /\ last_eval' = ev
          /\ parameters' = ev.pars
          /\ LET new == Advance(run.y_prev, ev.result[1])
             IN run' = [run EXCEPT !.t = run.t + 1,
                                   !.y_prev = new,
                                   !.y = Append(run.y, new.data),
                                   !.t_lst = Append(run.t_lst, run.t + 1)]
    /\ UNCHANGED <<cls, arg_parameters, arg_states, tdp, discrete, pc, err, inst,
                   cp, before, sim_args, rep, draw_seen, out, sims, prev, err_name>>

\* one pass of solve_discrete's loop on a simple_stochastic_SIR: func as it is
\* for every class, with the tuple this class's integrate returns
StepStochastic ==
    /\ pc = "step"
    /\ LoopCondition(run.t, sim_args.time)
    /\ LET ev == func(cls, tdp, inst, DefaultStartDate, sim_args.excess_time,
                      run.t, run.y_prev, RunArgs(parameters, last_eval), FALSE)
           states == Iter(ev.y_reshaped[1])
       IN /\ ev.err = "none"
          /\ ~StochasticRaises(states, ev.model_pars)
          /\ parameters' = ev.pars
          /\ \E dstates \in StochasticResults(states, ev.model_pars) :
                LET new == Advance(run.y_prev, Flatten(AsArray(dstates)))
                IN /\ last_eval' = [ev EXCEPT !.result = <<Flatten(AsArray(dstates))>>]
                   /\ run' = [run EXCEPT !.t = run.t + 1,
                                         !.y_prev = new,
                                         !.y = Append(run.y, new.data),
                                         !.t_lst = Append(run.t_lst, run.t + 1)]
    /\ UNCHANGED <<cls, arg_parameters, arg_states, tdp, discrete, pc, err, inst,
                   cp, before, sim_args, rep, draw_seen, out, sims, prev, err_name>>

\* simple_stochastic_SIR.integrate raises in np.random.binomial: the error
\* leaves sim
StepStochasticRaises ==
    /\ pc = "step"
    /\ LoopCondition(run.t, sim_args.time)
    /\ LET ev == func(cls, tdp, inst, DefaultStartDate, sim_args.excess_time,
                      run.t, run.y_prev, RunArgs(parameters, last_eval), FALSE)
       IN /\ ev.err = "none"
          /\ StochasticRaises(Iter(ev.y_reshaped[1]), ev.model_pars)
          /\ last_eval' = [ev EXCEPT !.err = "ValueError:binomial", !.result = <<>>]
          /\ parameters' = ev.pars
          /\ err' = "ValueError:binomial"
    /\ pc' = "raised"
    /\ UNCHANGED <<cls, arg_parameters, arg_states, tdp, discrete, inst, cp,
                   before, sim_args, rep, draw_seen, run, out, sims, prev, err_name>>

\* an evaluation of fun raises (in a callable's arguments, in the call of
\* integrate, or in integrate itself): the error leaves sim
StepRaises ==
    /\ pc = "step"
    /\ LoopCondition(run.t, sim_args.time)
    /\ \E integrate_fails \in BOOLEAN :
          LET ev == func(cls, tdp, inst, DefaultStartDate, sim_args.excess_time,
                         run.t, run.y_prev, RunArgs(parameters, last_eval),
                         integrate_fails)
          IN /\ ev.err # "none"
             /\ last_eval' = ev
             /\ parameters' = ev.pars
             /\ err' = ev.err
    /\ pc' = "raised"
    /\ UNCHANGED <<cls, arg_parameters, arg_states, tdp, discrete, inst, cp,
                   before, sim_args, rep, draw_seen, run, out, sims, prev, err_name>>

\* output["y"]: one row per element of the flat state vector, one column per
\* time point (the run keeps the columns)
OutputMatrix(output) ==
    LET rows == Len(output.y[1])
        cols == Len(output.t_lst)
    IN [shape |-> <<rows, cols>>,
        data |-> [n \in 1..(rows * cols) |->
                    output.y[((n - 1) % cols) + 1][((n - 1) \div cols) + 1]]]

\* coords of _output_to_xarray_dataset: the time points, then for every axis
\* the entry of the class's coordinates, or np.arange(size) when the class has
\* no coordinates or None for this axis
Coords(c, ins, output) ==
    <<[k |-> "time", v |-> PyArray(output.t_lst)]>>
        \o [i \in 1..Len(c.stratification) |->
              [k |-> c.stratification[i],
               v |-> IF c.coordinates # <<>> /\ c.coordinates[i] # None
                     THEN c.coordinates[i]
                     ELSE arange(ins.stratification_size[i])]]

\* size_lst of _output_to_xarray_dataset
SizeLst(c, ins, output) ==
    <<Len(c.state_names)>>
        \o (IF c.stratification # <<>> THEN ins.stratification_size ELSE <<>>)
        \o <<Len(output.t_lst)>>

\* y_reshaped with the columns of time first: what the assembler would hand out
\* if it read the output by time point
YReshapedByTime(c, ins, output) ==
    Reshape([shape |-> <<Len(output.t_lst), Len(output.y[1])>>,
             data |-> Concat(output.y)],
            SizeLst(c, ins, output))

\* y_reshaped = output["y"].reshape(tuple(size_lst))
YReshaped(c, ins, output) ==
    Reshape(OutputMatrix(output), SizeLst(c, ins, output))

\* data of _output_to_xarray_dataset: zip(self.state_names, y_reshaped)
DataVars(c, ins, output) ==
    LET arrays == Iter(YReshaped(c, ins, output))
    IN [k \in 1..Len(c.state_names) |-> [k |-> c.state_names[k], v |-> arrays[k]]]

\* _output_to_xarray_dataset(output): the run's dataset; its dimensions are the
\* stratification axes and then time, its data the array of each state, its
\* attrs a copy of the working mapping; t and y keep the time points and the
\* columns of the output
Dataset(output, params) ==
    [dims |-> cls.stratification \o <<"time">>,
     coords |-> Coords(cls, inst, output),
     data |-> DataVars(cls, inst, output),
     t |-> output.t_lst,
     y |-> output.y,
     attrs |-> params]

\* the dataset has a draws dimension
HasDraws(ds) ==
    \E i \in 1..Len(ds.dims) : ds.dims[i] = "draws"

\* two arrays of one variable stacked along draws
Stack(a, b, has_draws) ==
    [shape |-> IF has_draws THEN <<Head(a.shape) + 1>> \o Tail(a.shape)
               ELSE <<2>> \o a.shape,
     data |-> a.data \o b.data]

\* xarray.concat([out, single], "draws"): the runs stacked along the dimension
\* draws, which is new in front of the others when out has none yet; the attrs
\* of the result are those of the first dataset of the list
concat(ds, single) ==
    [dims |-> IF HasDraws(ds) THEN ds.dims ELSE <<"draws">> \o ds.dims,
     coords |-> ds.coords,
     data |-> [k \in 1..Len(ds.data) |->
                 [k |-> ds.data[k].k,
                  v |-> Stack(ds.data[k].v, single.data[k].v, HasDraws(ds))]],
     t |-> ds.t,
     y |-> IF HasDraws(ds) THEN Append(ds.y, single.y) ELSE <<ds.y, single.y>>,
     attrs |-> ds.attrs]

\* out after the run of repetition k: the first run's dataset as it is, a later
\* one concatenated to what is there
Collect(ds, k, single) ==
    IF k = 1 THEN single ELSE concat(ds, single)

\* a run ends and the next one starts with the mapping as it is: the draw
\* function is only called before the first run
NextRepetitionNoDraw ==
    /\ pc = "step"
    /\ ~LoopCondition(run.t, sim_args.time)
    /\ rep < sim_args.N
    /\ out' = Collect(out, rep, Dataset(run, parameters))
    /\ rep' = rep + 1
    /\ pc' = "run"
    /\ UNCHANGED <<cls, arg_parameters, arg_states, tdp, discrete, err, inst, parameters,
                   cp, before, sim_args, draw_seen, run, last_eval, sims, prev, err_name>>

\* a run ends and another repetition follows
NextRepetition ==
    /\ pc = "step"
    /\ ~LoopCondition(run.t, sim_args.time)
    /\ rep < sim_args.N
    /\ out' = Collect(out, rep, Dataset(run, parameters))
    /\ rep' = rep + 1
    /\ pc' = "draw"
    /\ UNCHANGED <<cls, arg_parameters, arg_states, tdp, discrete, err, inst, parameters,
                   cp, before, sim_args, draw_seen, run, last_eval, sims, prev, err_name>>

\* the last run ends: self.parameters = cp, return out
SimReturn ==
    /\ pc = "step"
    /\ ~LoopCondition(run.t, sim_args.time)
    /\ rep >= sim_args.N
    /\ out' = Collect(out, rep, Dataset(run, parameters))
    /\ parameters' = cp.val
    /\ pc' = "ready"
    /\ UNCHANGED <<cls, arg_parameters, arg_states, tdp, discrete, err, inst, cp, before,
                   sim_args, rep, draw_seen, run, last_eval, sims, prev, err_name>>

Next ==
    \/ Construct
    \/ SimBegin(1, Calls)
    \/ Draw
    \/ DrawRaises
    \/ RunBegin
    \/ Step
    \/ StepRaises
    \/ NextRepetition
    \/ SimReturn

Spec ==
    Init /\ [][Next]_vars

\* one call of sim over a span of integers on a discrete model
NextDiscrete ==
    \/ Construct
    \/ SimBegin(1, SpanCalls)
    \/ Draw
    \/ DrawRaises
    \/ RunBegin
    \/ Step
    \/ StepRaises
    \/ NextRepetition
    \/ SimReturn

SpecDiscrete ==
    InitDiscrete /\ [][NextDiscrete]_vars

\* one call of sim with an end date
NextDates ==
    \/ Construct
    \/ SimBegin(1, DateCalls)
    \/ Draw
    \/ DrawRaises
    \/ RunBegin
    \/ Step
    \/ StepRaises
    \/ NextRepetition
    \/ SimReturn

SpecDates ==
    Init /\ [][NextDates]_vars

\* calls of sim without draw function, one after another on one instance
NextRepeat ==
    \/ Construct
    \/ SimBegin(MaxSims, RepeatCalls)
    \/ Draw
    \/ RunBegin
    \/ Step
    \/ StepRaises
    \/ NextRepetition
    \/ SimReturn

SpecRepeat ==
    Init /\ [][NextRepeat]_vars

\* construction alone, over every class and argument
NextConstruct ==
    Construct

SpecConstruct ==
    InitConstruct /\ [][NextConstruct]_vars

\* the classes that declare stratified parameters
StratifiedClasses ==
    {ClsSpatial, ClsVacc}

\* arguments that are well-formed but for the shapes of the stratified parameters
InitStratified ==
    \E c \in StratifiedClasses :
    \E functions \in ValidFunctions(c) :
    \E sizes \in Sizes(c) :
    \E kinds \in [Range(StratifiedNames(c)) -> ShapeKinds] :
        Start(c, functions,
              ParamDictShaped(c, sizes, RequiredKeys(c, functions), kinds),
              StateDict(StateShape(c, sizes), c.state_names, c.state_names),
              FALSE)

\* construction with stratified parameters of every shape
SpecStratified ==
    InitStratified /\ [][NextConstruct]_vars

\* the names of integrate's arguments after the time and the states
SignatureKeys(c) ==
    SubSeq(c.integrate_sig, 2 + Len(c.state_names), Len(c.integrate_sig))

\* the classes of models.py, without time-dependent parameters, with the keys
\* the class declares or the keys integrate names, in two orders, one missing,
\* one extra
InitModels ==
    \E c \in ModelClasses :
    \E sizes \in Sizes(c) :
    \E keys \in KeyChoices(RequiredKeys(c, NoFunctions), "extra") \cup {SignatureKeys(c)} :
        Start(c, NoFunctions,
              ParamDict(c, sizes, keys),
              StateDict(StateShape(c, sizes), c.state_names, c.state_names),
              FALSE)

SpecModels ==
    InitModels /\ [][NextConstruct]_vars

\* the numbers of S, I and R in the n strata: non-negative integers, at most
\* MaxPop people in a stratum
Populations(n) ==
    {p \in [1..n -> [S : 0..MaxPop, I : 0..MaxPop, R : 0..MaxPop]] :
        \A j \in 1..n : p[j].S + p[j].I + p[j].R <= MaxPop}

\* the initial states of a simple_stochastic_SIR with these populations
PopulationStates(p) ==
    << [k |-> "S", v |-> [shape |-> <<Len(p)>>, data |-> [j \in 1..Len(p) |-> p[j].S]]],
       [k |-> "I", v |-> [shape |-> <<Len(p)>>, data |-> [j \in 1..Len(p) |-> p[j].I]]],
       [k |-> "R", v |-> [shape |-> <<Len(p)>>, data |-> [j \in 1..Len(p) |-> p[j].R]]] >>

\* simple_stochastic_SIR(states, parameters, discrete=True)
InitStochastic ==
    \E sizes \in Sizes(simple_stochastic_SIR) :
    \E p \in Populations(sizes[1]) :
        Start(simple_stochastic_SIR, NoFunctions,
              ParamDict(simple_stochastic_SIR, sizes,
                        RequiredKeys(simple_stochastic_SIR, NoFunctions)),
              PopulationStates(p),
              TRUE)

\* the call sim(1): one step
OneStepCalls ==
    {[time |-> PyInt(1), excess_time |-> None, N |-> 1, draw_fcn |-> "none"]}

\* one step of a discrete simple_stochastic_SIR
NextStochastic ==
    \/ Construct
    \/ SimBegin(1, OneStepCalls)
    \/ Draw
    \/ RunBegin
    \/ StepStochastic
    \/ StepStochasticRaises
    \/ SimReturn

SpecStochastic ==
    InitStochastic /\ [][NextStochastic]_vars

(***************************************************************************)
(* Claims about construction, checked under SpecConstruct.                 *)
(***************************************************************************)
Constructed == pc = "ready"

ConstructionEnded == pc \in {"ready", "failed"}

\* the auxiliary argument names of a callable, read off its signature: the
\* arguments after 'param' when that is the second one, else those after the first
AuxiliaryOf(sig) ==
    IF Len(sig) >= 2 /\ sig[2] = "param" THEN SubSeq(sig, 3, Len(sig))
    ELSE SubSeq(sig, 2, Len(sig))

IsRelative(sig) ==
    Len(sig) >= 2 /\ sig[2] = "param"

ExpectedKeySet ==
    Range(cls.parameter_names)
        \cup UNION {Range(cls.parameters_stratified_names[i]) :
                        i \in 1..Len(cls.parameters_stratified_names)}
        \cup Range(cls.stratification)
        \cup UNION {Range(AuxiliaryOf(tdp[i].v)) : i \in 1..Len(tdp)}

\* C5: construction succeeds only if the supplied parameters' key set is the
\* declared parameters, the stratified parameters, the axes and the callables'
\* auxiliary arguments (an extra or a missing key makes it fail), and then the
\* stored mapping has exactly that key set.
C5_ParameterKeySet ==
    /\ Constructed =>
          /\ KeySet(arg_parameters) = ExpectedKeySet
          /\ KeySet(parameters) = ExpectedKeySet
    /\ ConstructionEnded /\ KeySet(arg_parameters) # ExpectedKeySet => pc = "failed"

\* a construction with callables that bring auxiliary arguments has succeeded
C5_Witness ==
    /\ Constructed
    /\ Len(tdp) = 2
    /\ Len(parameters) > Len(DeclaredParams(cls))

\* the signature the contract asks of integrate
ExpectedSignature ==
    <<"t">> \o cls.state_names \o cls.parameter_names
        \o Concat([i \in 1..Len(cls.parameters_stratified_names) |->
                      cls.parameters_stratified_names[i]])
        \o cls.stratification

\* the error of the first signature check that fails: time, then states, then parameters
FirstSignatureError ==
    LET sig == cls.integrate_sig
        n == Len(cls.state_names)
    IN IF sig[1] # "t" THEN "ValueError:integrate_t"
       ELSE IF \E i \in 1..n : i + 1 > Len(sig) \/ sig[i + 1] # cls.state_names[i]
            THEN "ValueError:integrate_states"
       ELSE "ValueError:integrate_params"

\* every axis is a key of the supplied parameters
AxesSupplied ==
    \A i \in 1..Len(cls.stratification) : Has(arg_parameters, cls.stratification[i])

\* every callable is bound to a model parameter and has 't' and one more argument
FunctionsAccepted ==
    \A i \in 1..Len(tdp) :
        /\ tdp[i].k \in Range(DeclaredParams(cls))
        /\ Len(tdp[i].v) >= 2
        /\ tdp[i].v[1] = "t"

\* C6 as stated: construction fails unless integrate's argument names are 't',
\* the states, the parameters; the three checks are made in that order and each
\* before the supplied parameters are examined, so a broken signature is always
\* reported by its first failing check.
C6_SignatureFirst ==
    ConstructionEnded =>
        /\ Constructed => cls.integrate_sig = ExpectedSignature
        /\ cls.integrate_sig # ExpectedSignature => err = FirstSignatureError

\* C6 (amended): construction fails unless integrate's argument names are 't',
\* the states, the parameters; when every axis is among the supplied parameters
\* and the callables are accepted, a broken signature is reported by its first
\* failing check (time, states, parameters), whatever the other supplied
\* parameter keys, parameter values and initial states are.
C6_SignatureChecks ==
    ConstructionEnded =>
        /\ Constructed => cls.integrate_sig = ExpectedSignature
        /\ cls.integrate_sig # ExpectedSignature => pc = "failed"
        /\ cls.integrate_sig # ExpectedSignature /\ AxesSupplied /\ FunctionsAccepted
              => err = FirstSignatureError

\* a signature with the states out of order is reported although the supplied
\* parameters have a redundant key
C6_Witness ==
    /\ pc = "failed"
    /\ err = "ValueError:integrate_states"
    /\ Has(arg_parameters, "extra")

\* C10: a callable whose first argument is not 't' makes construction fail;
\* otherwise it is relative with the arguments after the second as auxiliary
\* ones when its second argument is 'param', and absolute with the arguments
\* after the first as auxiliary ones when not, also when 't' is its only argument.
C10_Classification ==
    ConstructionEnded /\ AxesSupplied =>
        IF \E i \in 1..Len(tdp) : tdp[i].v[1] # "t" THEN pc = "failed"
        ELSE (\A i \in 1..Len(tdp) : tdp[i].k \in Range(DeclaredParams(cls))) =>
                /\ inst.function_parameters = [i \in 1..Len(tdp) |-> AuxiliaryOf(tdp[i].v)]
                /\ inst.relative_time_dependent_value =
                      [i \in 1..Len(tdp) |-> IsRelative(tdp[i].v)]

(***************************************************************************)
(* Claims about sim, checked under Spec.                                   *)
(***************************************************************************)
SimReturned == pc = "ready" /\ sims > 0

SimRaised == pc = "raised"

\* C1: after sim returns normally, self.parameters has the keys, the key order
\* and the values it had immediately before the call, whatever N and whatever
\* the draw function did (changed the mapping in place or returned a new one).
C1_ParametersRestored ==
    SimReturned => parameters = before

\* an ensemble of two or more runs with a draw function that adds a key to the
\* mapping in place has returned
C1_Witness ==
    /\ SimReturned
    /\ sim_args.N >= 2
    /\ sim_args.draw_fcn = "derived"
    /\ Len(draw_seen) = sim_args.N

\* C2: when sim ends because the draw function or the transition function
\* raised, self.parameters equals the mapping before the call.
C2_RestoredOnError ==
    SimRaised /\ err \in {"DrawError", "ArithmeticError"} => parameters = before

\* C3: the mapping handed to the draw function in every repetition is the
\* baseline: a change made by the draw of repetition k-1 is not visible in
\* repetition k.
C3_DrawFromBaseline ==
    \A k \in 1..Len(draw_seen) : draw_seen[k] = before

\* the draw function has returned the validated keys, in validated order,
\* followed by keys that are not in the validated set
ExtraKeysDrawn ==
    /\ Len(parameters) > Len(before)
    /\ SubSeq(Keys(parameters), 1, Len(before)) = Keys(before)

\* an evaluation of func has got as far as the arguments of integrate
Evaluated ==
    /\ pc \in {"step", "raised"}
    /\ run.y0 # <<>>
    /\ last_eval # NoEval
    /\ last_eval.err \notin {"KeyError", "ValueError:reshape"}

\* C4: in a run after a draw that added keys, integrate is called with exactly
\* the declared parameters' values, in declared order (the value of a parameter
\* that has no callable is the one in the working mapping).
C4_ExtraKeysIgnored ==
    Evaluated /\ ExtraKeysDrawn =>
        /\ last_eval.err # "TypeError"
        /\ Len(last_eval.model_pars) = Len(DeclaredParams(cls))
        /\ \A i \in 1..Len(DeclaredParams(cls)) :
              DeclaredParams(cls)[i] \notin {tdp[n].k : n \in 1..Len(tdp)} =>
                  last_eval.model_pars[i] = Get(parameters, DeclaredParams(cls)[i])

\* the product of the axis sizes
RECURSIVE Product(_)
Product(sizes) ==
    IF sizes = <<>> THEN 1 ELSE Head(sizes) * Product(Tail(sizes))

\* C7: the initial vector _sim_single hands to the integrator is one sequence of
\* scalars, len(state_names) x the product of the axis sizes long: the states'
\* arrays in state_names order, each in row-major order.
C7_InitialVectorFlat ==
    run.y0 # <<>> =>
        /\ \A i \in 1..Len(run.y0) : run.y0[i].shape = <<>>
        /\ Len(run.y0) = Len(cls.state_names) * Product(inst.stratification_size)
        /\ Concat([i \in 1..Len(run.y0) |-> run.y0[i].data])
              = Concat([k \in 1..Len(cls.state_names) |->
                           Get(inst.initial_states, cls.state_names[k]).data])

\* flatten, the concatenation that builds the integrator's vector, of a list of
\* state arrays
FlattenStates(arrays) ==
    Chain(arrays)

\* C8: flatten(expand(flatten(initial_states))) = flatten(initial_states), with
\* expand the reshape of func; and the states func unpacks at the first
\* evaluation of a run flatten to the vector the run started from.
C8_RoundTrip ==
    /\ inst # NoInst /\ pc # "failed" =>
          LET flat == FlattenStates(Values(inst.initial_states))
          IN FlattenStates(Iter(Expand(cls, inst, AsArray(flat)))) = flat
    /\ pc = "step" /\ Len(run.t_lst) = 2 =>
          FlattenStates(Iter(last_eval.y_reshaped[1])) = run.y0

\* the first evaluation of a discrete run of a model with two axes is done
C8_Witness ==
    /\ pc = "step"
    /\ Len(run.t_lst) = 2
    /\ Len(inst.stratification_size) = 2
    /\ \E i \in 1..2 : inst.stratification_size[i] > 1

\* C9: every callable gets as auxiliary arguments the values stored in the
\* run's working mapping, also for an argument that is itself a time-dependent
\* parameter evaluated before.
C9_AuxiliaryOriginal ==
    pc \in {"step", "raised"} =>
        \A i \in 1..Len(last_eval.calls) :
            \A n \in 1..Len(last_eval.calls[i].func_params) :
                last_eval.calls[i].func_params[n].v
                    = Get(parameters, last_eval.calls[i].func_params[n].k)

(***************************************************************************)
(* Claims about the dataset sim returns, checked under Spec.               *)
(***************************************************************************)
\* C11: sim with N = 1 and a draw function returns a dataset with the
\* dimensions of a sim without draw function and one more, draws, after them.
C11_SingletonDraws ==
    SimReturned /\ sim_args.N = 1 /\ sim_args.draw_fcn # "none" =>
        out.dims = cls.stratification \o <<"time", "draws">>

\* the mapping the run of the last repetition worked with: what the draw
\* function returned for the mapping it was handed there
FinalRunMapping ==
    DrawResult(sim_args.draw_fcn, draw_seen[Len(draw_seen)], DrawSample(Len(draw_seen)))

\* C12: the attrs of the dataset sim returns are the mapping of the final run:
\* after N >= 2 repetitions with a draw function they hold the values drawn in
\* repetition N.
C12_MetadataFinalRun ==
    SimReturned /\ sim_args.N >= 2 /\ sim_args.draw_fcn # "none" =>
        /\ out.attrs = FinalRunMapping
        /\ Get(out.attrs, "beta") = DrawSample(sim_args.N)

\* the runs begun so far in the call of sim under way, the one whose draw is
\* done included
RunsStarted ==
    IF pc = "draw" THEN rep - 1 ELSE rep

\* the runs the returned dataset holds
RunsReturned ==
    IF HasDraws(out) THEN Len(out.y) ELSE 1

\* max(N, 1)
MaxN1 ==
    IF sim_args.N > 1 THEN sim_args.N ELSE 1

\* C13: a call of sim makes max(N, 1) runs one after another; with a draw
\* function, draw k is called once, right before run k, and no draw follows the
\* last run; without a draw function there is no draw call.
C13_DrawThenRun ==
    sims > 0 /\ pc # "raised" =>
        /\ RunsStarted <= MaxN1
        /\ Len(draw_seen) = IF sim_args.draw_fcn = "none" THEN 0 ELSE RunsStarted
        /\ SimReturned => RunsStarted = MaxN1 /\ RunsReturned = MaxN1

\* sim has returned after N = MaxN runs with a draw function
C13_Witness ==
    /\ SimReturned
    /\ sim_args.draw_fcn # "none"
    /\ sim_args.N = MaxN
    /\ Len(draw_seen) = MaxN

(***************************************************************************)
(* Claims about consecutive calls of sim, checked under SpecRepeat.        *)
(***************************************************************************)
\* the call before this one returned, and this one has the same arguments
SameCallAgain ==
    /\ sims >= 2
    /\ prev.pc = "ready"
    /\ prev.sim_args = sim_args

C15_ZeroFill ==
    [][pc = "new" =>
          LET supplied == KeySet(arg_states)
              declared == Range(cls.state_names)
          IN /\ pc' = "ready" =>
                    \A name \in declared \ supplied :
                        Get(inst'.initial_states, name) = Zeros(inst'.stratification_size)
             /\ supplied \subseteq declared => err' # "ValueError:states"
             /\ ~(supplied \subseteq declared) => pc' = "failed"]_vars

\* a model with an axis of more than one element is constructed with a state
\* of zeros, which no caller supplies
C15_Witness ==
    /\ Constructed
    /\ Size(inst.stratification_size) > 1
    /\ \E name \in Range(cls.state_names) :
           Get(inst.initial_states, name) = Zeros(inst.stratification_size)

\* the size of axis i as the supplied axis parameter gives it
AxisSize(i) ==
    Get(arg_parameters, cls.stratification[i]).shape[1]

\* the supplied value of a stratified parameter is a vector as long as its axis
FitsAxis(name) ==
    LET shape == Get(arg_parameters, name).shape
    IN Len(shape) = 1 /\ shape[1] = AxisSize(GroupIndex(cls, name))

\* the places in the flattened stratified names of the parameters that do not fit
Offending ==
    {i \in 1..Len(StratifiedNames(cls)) : ~FitsAxis(StratifiedNames(cls)[i])}

\* C16: construction fails unless every parameter of group i of
\* parameters_stratified_names is a one-dimensional array as long as axis i;
\* the error names the first parameter, in declared order, that is not.
C16_StratifiedShape ==
    pc # "new" =>
        IF Offending = {}
        THEN err \notin {"ValueError:ndim", "ValueError:length"}
        ELSE LET first == CHOOSE i \in Offending : \A j \in Offending : i <= j
                 name == StratifiedNames(cls)[first]
             IN /\ pc = "failed"
                /\ err_name = name
                /\ err = IF Len(Get(arg_parameters, name).shape) # 1
                         THEN "ValueError:ndim" ELSE "ValueError:length"

\* construction failed for a vector that is as long as another axis, not its own
C16_Witness ==
    /\ pc = "failed"
    /\ err = "ValueError:length"
    /\ \E i \in 1..Len(cls.stratification) :
           Get(arg_parameters, err_name).shape[1] = AxisSize(i)

\* parameter_names, the stratified names group after group, the axes, then the
\* callables' auxiliary argument names in the order of the callables; a name
\* has the place of its first appearance
ExpectedKeyOrder ==
    Dedupe(cls.parameter_names
             \o Concat(cls.parameters_stratified_names)
             \o cls.stratification
             \o Concat([i \in 1..Len(tdp) |-> AuxiliaryOf(tdp[i].v)]))

\* C17: after a successful construction self.parameters iterates in the order
\* parameter_names, stratified names, axes, auxiliary names, and
\* self.initial_states in the order of state_names, whatever the order of the
\* supplied dicts.
C17_StoredOrder ==
    Constructed =>
        /\ Keys(parameters) = ExpectedKeyOrder
        /\ Keys(inst.initial_states) = cls.state_names

\* a model with callables is constructed from dicts in the reverse order
C17_Witness ==
    /\ Constructed
    /\ Len(parameters) > Len(DeclaredParams(cls))
    /\ Keys(arg_parameters) = Reverse(Keys(parameters))
    /\ Keys(arg_states) = Reverse(cls.state_names)

(***************************************************************************)
(* Claims about discrete runs, checked under SpecDiscrete.                 *)
(***************************************************************************)
\* the columns of the returned dataset, one per time point of every run
Columns(ds) ==
    IF HasDraws(ds) THEN Concat(ds.y) ELSE ds.y

\* C18: no value of a state at any time point, the initial one included, of a
\* dataset returned by a discrete run is negative.
C18_NonNegative ==
    SimReturned /\ discrete =>
        \A k \in 1..Len(Columns(out)) :
            \A j \in 1..Len(Columns(out)[k]) : Columns(out)[k][j] >= 0

\* t0, t0 + 1, ..., t1
Span(t0, t1) ==
    [i \in 1..(t1 - t0 + 1) |-> t0 + i - 1]

\* C19: a discrete run over [t0, t1], t0 <= t1, has the time axis t0, ..., t1; its
\* column 0 is the flattened initial state; it evaluates the transition function
\* once per step, at t0 + k on column k for k = 0, 1, ... in this order and
\* never at t1, and column k + 1 is the value returned, not a sum.
C19_DiscreteColumns ==
    [][discrete /\ pc = "step" /\ sim_args.time[1] <= sim_args.time[2] =>
          LET t0 == sim_args.time[1]
              t1 == sim_args.time[2]
              k == Len(run.y) - 1
          IN /\ run.t_lst = Span(t0, t0 + k)
             /\ run.y[1] = Concat([i \in 1..Len(cls.state_names) |->
                                      Get(inst.initial_states, cls.state_names[i]).data])
             /\ run' # run =>
                    /\ t0 + k < t1
                    /\ last_eval'.t = t0 + k
                    /\ last_eval'.y_reshaped[1].data = run.y[k + 1]
                    /\ run'.y = Append(run.y,
                                       Flatten(AsArray(IntegrateResult(
                                           Iter(last_eval'.y_reshaped[1]),
                                           last_eval'.model_pars))).data)
                    /\ run'.t_lst = Span(t0, t0 + k + 1)
             /\ pc' \in {"ready", "draw"} =>
                    /\ run.t_lst = Span(t0, t1)
                    /\ Len(run.y) = t1 - t0 + 1
                    /\ out'.t = Span(t0, t1)]_vars

\* a discrete run of one step over a span that does not start at 0 has returned
C19_Witness ==
    /\ SimReturned
    /\ discrete
    /\ sim_args.time[1] > 0
    /\ sim_args.time[2] = sim_args.time[1] + 1
    /\ Len(run.y) = 2

(***************************************************************************)
(* Claims about sim's time argument, checked under SpecDates.              *)
(***************************************************************************)
\* d: the whole days from the default start_date to the date
DaysFromStart(date) ==
    to_datetime(date) - to_datetime(DefaultStartDate)

\* e: the offset, nothing when none is given
Offset(excess_time) ==
    IF excess_time = None THEN 0 ELSE excess_time.value[1]

\* C20: sim with an end date simulates the span [0, d + e], with d the days from
\* start_date to the end date and e the offset excess_time; without an offset
\* the call does not fail and simulates [0, d].
C20_DateSpan ==
    [][(pc \in {"ready", "raised"} /\ sims' = sims + 1) =>
          (/\ pc' = "draw"
           /\ \E date \in EndDates :
                  sim_args'.time = <<0, DaysFromStart(date) + Offset(sim_args'.excess_time)>>)
      ]_vars

(***************************************************************************)
(* The classes of models.py.                                               *)
(***************************************************************************)
\* the caller's keys are those the class declares
DeclaredKeysSupplied ==
    KeySet(arg_parameters) = Range(DeclaredParams(cls))

\* C21: every class of models.py has an integrate whose argument names are
\* 't', the states, the parameters, the stratified parameters and the axes in
\* this order, and its construction with the declared keys succeeds
C21_ModelsConstructible ==
    /\ cls.integrate_sig = <<"t">> \o cls.state_names \o DeclaredParams(cls)
    /\ (ConstructionEnded /\ DeclaredKeysSupplied) => pc = "ready"

\* C22: in every class of models.py the tuple integrate returns has one value
\* per declared state, in the order of state_names
C22_ReturnOrder ==
    cls.integrate_ret = cls.state_names

(***************************************************************************)
(* The result assembler.                                                   *)
(***************************************************************************)
\* the sizes of the axes of a state's array, time aside
AxisSizes ==
    IF cls.stratification = <<>> THEN <<>> ELSE inst.stratification_size

\* the multi-indices of an array of this shape, 0-based
MultiIndices(shape) ==
    {i \in [1..Len(shape) -> 0..MaxAxis] : \A n \in 1..Len(shape) : i[n] < shape[n]}

\* the 0-based row-major rank of multi-index i in an array of this shape
RECURSIVE RowMajor(_, _)
RowMajor(shape, i) ==
    IF shape = <<>> THEN 0
    ELSE Head(i) * Product(Tail(shape)) + RowMajor(Tail(shape), Tail(i))

\* the element of array a at the 0-based multi-index i
At(a, i) ==
    a.data[RowMajor(a.shape, i) + 1]

\* the run returned one dataset, which has no draws dimension
SingleReturned ==
    SimReturned /\ ~HasDraws(out)

\* the coordinate the class declares for axis n, when it declares one
HasLabel(n) ==
    cls.coordinates # <<>> /\ cls.coordinates[n] # None

Passes(t0, t1) ==
    IF t0 <= t1 THEN t1 - t0 ELSE 0

\* C24: the loop of a discrete run over [t0, t1] ends: every pass moves t one
\* step towards t1 and is made only while t < t1, the loop is left after exactly
\* t1 - t0 evaluations when t0 <= t1, and when t1 <= t0 without any evaluation,
\* the output holding the initial state at time t0 alone
C24_LoopTerminates ==
    [][discrete /\ pc = "step" =>
          LET t0 == sim_args.time[1]
              t1 == sim_args.time[2]
              n == Len(run.y) - 1
          IN /\ run.t = t0 + n
             /\ n <= Passes(t0, t1)
             /\ run' # run =>
                    /\ run.t < t1
                    /\ run'.t = run.t + 1
                    /\ t1 - run'.t < t1 - run.t
                    /\ Len(run'.y) = Len(run.y) + 1
                    /\ last_eval' # NoEval
             /\ pc' \in {"ready", "draw"} =>
                    /\ n = Passes(t0, t1)
                    /\ t1 <= t0 =>
                           /\ last_eval = NoEval
                           /\ run.t_lst = <<t0>>
                           /\ run.y = <<Flatten(AsArray(InitialVector(inst.initial_states))).data>>
                           /\ rep = 1 => out'.t = <<t0>> /\ Len(out'.y) = 1]_vars

\* a discrete run over a span that ends before it starts has returned
C24_Witness ==
    /\ SimReturned
    /\ discrete
    /\ sim_args.time[2] < sim_args.time[1]
    /\ out.t = <<sim_args.time[1]>>

(***************************************************************************)
(* Evaluations of fun within one run.                                      *)
(***************************************************************************)
\* the previous values the evaluation ev passed to its relative callables
PreviousValues(ev) ==
    [i \in 1..Len(ev.calls) |-> ev.calls[i].previous]

\* ev passed a relative callable a value that a callable returned
FedBack(ev) ==
    \E i \in 1..Len(ev.calls) : \E t \in 0..MaxT :
        /\ ev.calls[i].relative
        /\ ev.calls[i].previous[1] = FunctionResult(t, ev.calls[i].previous[1])

\* C25: within one run, continuous or discrete, every evaluation passes a
\* relative callable the value stored under its parameter in the mapping of the
\* run, the same at every time point, and never a value a callable returned
C25_PreviousValueFixed ==
    [][pc = "step" /\ pc' \in {"step", "raised"} /\ last_eval' # last_eval =>
          /\ \A i \in 1..Len(last_eval'.calls) :
                last_eval'.calls[i].relative =>
                    last_eval'.calls[i].previous
                        = <<Get(parameters, last_eval'.calls[i].param)>>
          /\ ~FedBack(last_eval')
          /\ (last_eval # NoEval /\ Len(last_eval'.calls) = Len(last_eval.calls)) =>
                 PreviousValues(last_eval') = PreviousValues(last_eval)]_vars

\* the second evaluation of a run with a relative callable has been made
C25_Witness ==
    /\ pc = "step"
    /\ last_eval # NoEval
    /\ last_eval.t = sim_args.time[1] + 1
    /\ \E i \in 1..Len(last_eval.calls) : last_eval.calls[i].relative

(***************************************************************************)
(* The parameters integrate receives.                                      *)
(***************************************************************************)
\* the stored keys that only callables use
AuxiliaryOnlyKeys ==
    KeySet(parameters) \ Range(DeclaredParams(cls))

\* C26: after a construction that passes validation, the number of trailing
\* values func strips is the number of stored keys that only callables use,
\* also when a callable's auxiliary argument has the name of a declared
\* parameter, and integrate is called with one value per declared parameter
C26_AuxiliaryStripped ==
    /\ (Constructed /\ sims = 0) =>
           inst.n_function_params = Cardinality(AuxiliaryOnlyKeys)
    /\ (Evaluated /\ sim_args.draw_fcn = "none") =>
           /\ last_eval.err # "TypeError"
           /\ Len(last_eval.model_pars) = Len(DeclaredParams(cls))

\* C27: an evaluation of func, whether it returns or raises, leaves the
\* parameters mapping of the instance as it was: the callables' values go to
\* the copy made for this evaluation
C27_EvaluationKeepsParameters ==
    [][pc = "step" /\ last_eval' # last_eval => parameters' = parameters]_vars

\* an evaluation that called a callable and handed integrate its value has
\* been made
C27_Witness ==
    /\ pc = "step"
    /\ last_eval # NoEval
    /\ last_eval.calls # <<>>
    /\ \E i \in 1..Len(last_eval.model_pars) :
          last_eval.model_pars[i] # Values(parameters)[i]

(***************************************************************************)
(* The caller's initial states.                                            *)
(***************************************************************************)
\* C28: a construction, whether it succeeds or fails, leaves the mapping of
\* initial states the caller passed with the keys and values it had
C28_CallerStatesKept ==
    [][pc = "new" => arg_states' = arg_states]_vars

(***************************************************************************)
(* simple_stochastic_SIR, checked under SpecStochastic.                    *)
(***************************************************************************)
\* the arrays of S, I and R in a flat state vector
StatesOf(flat) ==
    Iter(Reshape(flat, <<3, Len(flat.data) \div 3>>))

\* C29: a step of simple_stochastic_SIR.integrate on non-negative integers
\* returns, in every stratum and for every outcome of the draws, non-negative
\* numbers with the sum of the stratum before the step, and they are the
\* numbers before the floor at zero: S less a draw from 0..S, I plus that draw
\* less a draw from 0..I, R plus the second draw
C29_StochasticStep ==
    [][pc = "step" /\ last_eval' # last_eval /\ last_eval'.err = "none" =>
          LET old == Iter(last_eval'.y_reshaped[1])
              new == StatesOf(last_eval'.result[1])
              S == old[1].data
              I == old[2].data
              R == old[3].data
              S_new == new[1].data
              I_new == new[2].data
              R_new == new[3].data
          IN \A j \in 1..Len(S) :
                /\ S[j] >= 0 /\ I[j] >= 0 /\ R[j] >= 0
                /\ S_new[j] >= 0 /\ I_new[j] >= 0 /\ R_new[j] >= 0
                /\ S_new[j] + I_new[j] + R_new[j] = S[j] + I[j] + R[j]
                /\ \E StoI \in 0..S[j] : \E ItoR \in 0..I[j] :
                      /\ S_new[j] = S[j] - StoI
                      /\ I_new[j] = I[j] + StoI - ItoR
                      /\ R_new[j] = R[j] + ItoR]_vars

\* a step in which every susceptible of a stratum was infected and every
\* infectious one removed has been made
C29_Witness ==
    /\ pc = "step"
    /\ last_eval # NoEval
    /\ last_eval.err = "none"
    /\ LET old == Iter(last_eval.y_reshaped[1])
           new == StatesOf(last_eval.result[1])
       IN \E j \in 1..Len(old[1].data) :
             /\ old[1].data[j] > 0
             /\ old[2].data[j] > 0
             /\ new[1].data[j] = 0
             /\ new[2].data[j] = old[1].data[j]
             /\ new[3].data[j] = old[3].data[j] + old[2].data[j]

(***************************************************************************)
(* The order of the keys of the parameters.                                *)
(***************************************************************************)
\* the draw function returned a mapping with the keys the instance had
SameKeysDrawn ==
    /\ sim_args.draw_fcn # "none"
    /\ KeySet(parameters) = KeySet(before)

\* C30: in a run after a draw that returned the stored keys, in whatever
\* order, integrate receives for every declared parameter the value the
\* mapping holds under its name (for a parameter without callable)
C30_OrderIndependent ==
    Evaluated /\ SameKeysDrawn =>
        \A i \in 1..Len(DeclaredParams(cls)) :
            DeclaredParams(cls)[i] \notin {tdp[n].k : n \in 1..Len(tdp)} =>
                /\ i <= Len(last_eval.model_pars)
                /\ last_eval.model_pars[i] = Get(parameters, DeclaredParams(cls)[i])

====
